---- MODULE Spec2Model ----
(***************************************************************************)
(* scripts/generate_icon.py: generate_icon_svg() builds a fixed SVG        *)
(* document; main() ensures the output directory exists, writes the        *)
(* document to icon.svg inside it and prints guidance.                     *)
(*                                                                         *)
(* The program is modelled together with the part of the filesystem it     *)
(* touches: the chain of directories of output_dir, the file icon.svg,     *)
(* and the one file handle main() opens.  The SVG text is modelled as the  *)
(* sequence of its markup items (declaration, tags, comments), each        *)
(* carrying the source line it starts on, its tag, its id and the gradient *)
(* it references; file contents are sequences of such items, and a partial *)
(* write leaves a prefix of them.                                          *)
(***************************************************************************)
EXTENDS Integers, Sequences, FiniteSets

\* ---------------------------------------------------------------- bounds

\* How many times the program is invoked one after the other.
MaxRuns == 2
\* Longest run of foreign items in a pre-existing icon.svg.
MaxOldLen == 2
\* Most items one write system call transfers.
MaxChunk == 2

\* ------------------------------------------------------------- constants

\* output_dir = <dirname(__file__)>/../src-tauri/icons: two directories
\* ('src-tauri', 'icons') below a directory that exists (level 0).
OutputDirDepth == 2

VARIABLES
  fs_mode,      \* "writable" | "read_only" | "failing" (operations may fail)
  dirs,         \* levels 0..OutputDirDepth of output_dir that exist
  file,         \* icon.svg: [exists, data]
  f,            \* the handle of the with statement: [open, pos]
  pc,           \* position of main()
  svg_content,  \* main's local svg_content (<<>> before line 59)
  raised,       \* the step whose exception is propagating, or "none"
  stdout,       \* lines printed in this run
  exit_status,  \* -1 while running, then the process' exit status
  run,          \* number of the current invocation
  trace,        \* steps main() has begun in this run, in order
  file_before,  \* icon.svg as it was when this run started
  dirs_before,  \* dirs as they were when this run started
  returned,     \* every call of generate_icon_svg() so far: the text it
                \* returned and whether icon.svg existed then
  previous      \* the run before this one: [status, file] (-1: there is none)

vars == <<fs_mode, dirs, file, f, pc, svg_content, raised, stdout,
          exit_status, run, trace, file_before, dirs_before, returned,
          previous>>

\* ------------------------------------------------------------- the text

Tok(line, tag, id, ref) == [line |-> line, tag |-> tag, id |-> id, ref |-> ref]

\* The string literal of lines 9-48, item by item.
SvgDocument ==
  << Tok(9, "?xml", "", ""),
     Tok(10, "svg", "", ""),
     Tok(11, "comment", "", ""),
     Tok(12, "defs", "", ""),
     Tok(13, "linearGradient", "bgGrad", ""),
     Tok(14, "stop", "", ""),
     Tok(15, "stop", "", ""),
     Tok(16, "/linearGradient", "", ""),
     Tok(17, "linearGradient", "iconGrad", ""),
     Tok(18, "stop", "", ""),
     Tok(19, "stop", "", ""),
     Tok(20, "/linearGradient", "", ""),
     Tok(21, "/defs", "", ""),
     Tok(23, "comment", "", ""),
     Tok(24, "circle", "", "bgGrad"),
     Tok(26, "comment", "", ""),
     Tok(27, "g", "", ""),
     Tok(28, "comment", "", ""),
     Tok(29, "path", "", "iconGrad"),
     Tok(31, "path", "", "iconGrad"),
     Tok(34, "comment", "", ""),
     Tok(35, "circle", "", "iconGrad"),
     Tok(36, "circle", "", "iconGrad"),
     Tok(37, "circle", "", "iconGrad"),
     Tok(38, "circle", "", "iconGrad"),
     Tok(40, "comment", "", ""),
     Tok(41, "line", "", "iconGrad"),
     Tok(42, "line", "", "iconGrad"),
     Tok(43, "line", "", "iconGrad"),
     Tok(44, "line", "", "iconGrad"),
     Tok(45, "line", "", "iconGrad"),
     Tok(46, "line", "", "iconGrad"),
     Tok(47, "/g", "", ""),
     Tok(48, "/svg", "", "") >>

\* A generator that lost the last connector line (line 46).
generate_icon_svg_missing_line ==
  SelectSeq(SvgDocument, LAMBDA t : t.line # 46)

\* A generator that stamps its output with the invocation it was made in.
generate_icon_svg_stamped ==
  Append(SvgDocument, Tok(run, "comment", "", ""))

\* A generator whose output depends on what is on disk.
generate_icon_svg_stateful ==
  IF file.exists THEN SvgDocument ELSE SubSeq(SvgDocument, 2, Len(SvgDocument))

\* def generate_icon_svg(): svg = '''...'''; return svg
generate_icon_svg == SvgDocument

\* -------------------------------------------------------- the filesystem

Absent == [exists |-> FALSE, data |-> <<>>]
Regular(data) == [exists |-> TRUE, data |-> data]

Junk(n) == [i \in 1..n |-> Tok(0, "junk", "", "")]

IsPrefix(s, t) == Len(s) <= Len(t) /\ SubSeq(t, 1, Len(s)) = s

\* What icon.svg may hold before the first run: nothing, foreign content of
\* several lengths, the output of an earlier run, or something longer.
InitialFiles ==
  {Absent} \cup {Regular(Junk(n)) : n \in 0..MaxOldLen}
           \cup {Regular(SvgDocument), Regular(SvgDocument \o Junk(MaxOldLen))}

\* Directory levels are created parent first, so the existing ones are 0..n.
InitialDirs == {0..n : n \in 0..OutputDirDepth}

\* mkdir(2) of level n.  fail is the level whose creation the filesystem
\* refuses in mode "failing" (0: none).
mkdir(n, d, mode, fail) ==
  IF n \in d THEN [dirs |-> d, err |-> "EEXIST"]
  ELSE IF (n - 1) \notin d THEN [dirs |-> d, err |-> "ENOENT"]
  ELSE IF mode = "read_only" THEN [dirs |-> d, err |-> "EROFS"]
  ELSE IF mode = "failing" /\ fail = n THEN [dirs |-> d, err |-> "ENOSPC"]
  ELSE [dirs |-> d \cup {n}, err |-> "ok"]

\* os.mkdir(output_dir) in place of os.makedirs: no parent is created.
makedirs_flat(n, d, mode, fail) ==
  LET r == mkdir(n, d, mode, fail)
  IN  IF r.err # "ok" /\ n \in r.dirs THEN [dirs |-> r.dirs, err |-> "ok"] ELSE r

\* os.makedirs(name, exist_ok=True): create the missing parents first, then
\* the directory; an OSError of mkdir is dropped when the directory exists.
RECURSIVE makedirs(_, _, _, _)
makedirs(n, d, mode, fail) ==
  LET head == IF (n - 1) \notin d
              THEN makedirs(n - 1, d, mode, fail)
              ELSE [dirs |-> d, err |-> "ok"]
  IN  IF head.err \notin {"ok", "EEXIST"}
      THEN head
      ELSE LET r == mkdir(n, head.dirs, mode, fail)
           IN  IF r.err # "ok" /\ n \in r.dirs
               THEN [dirs |-> r.dirs, err |-> "ok"]
               ELSE r

\* open(path, 'r+'): nothing is truncated.
open_keep(old) == [data |-> old.data, pos |-> 0]

\* open(svg_path, 'w'): the file is created or truncated, position 0.
open_w(old) == [data |-> <<>>, pos |-> 0]

\* write(2) of chunk at position pos.
pwrite(data, pos, chunk) ==
  SubSeq(data, 1, pos) \o chunk \o SubSeq(data, pos + Len(chunk) + 1, Len(data))

\* Outcomes of open(2) for writing: it needs the directory, and a read-only
\* filesystem refuses it before anything is created or truncated.
OpenOutcomes(mode, d) ==
  IF OutputDirDepth \notin d \/ mode = "read_only" THEN {FALSE}
  ELSE IF mode = "failing" THEN {TRUE, FALSE}
  ELSE {TRUE}

FailLevels(mode) == IF mode = "failing" THEN 0..OutputDirDepth ELSE {0}

Min(a, b) == IF a < b THEN a ELSE b

Range(s) == {s[i] : i \in 1..Len(s)}

\* ------------------------------------------------------------ the program

Init ==
  /\ fs_mode \in {"writable", "read_only", "failing"}
  /\ dirs \in InitialDirs
  /\ file \in IF OutputDirDepth \in dirs THEN InitialFiles ELSE {Absent}
  /\ f = [open |-> FALSE, pos |-> 0]
  /\ pc = "makedirs"
  /\ svg_content = <<>>
  /\ raised = "none"
  /\ stdout = <<>>
  /\ exit_status = -1
  /\ run = 1
  /\ trace = <<>>
  /\ file_before = file
  /\ dirs_before = dirs
  /\ returned = <<>>
  /\ previous = [status |-> -1, file |-> Absent]

\* The process ends: status 0 when main() returns, 1 when an exception
\* reaches the top level.
Exit(status) ==
  /\ pc' = "exited"
  /\ exit_status' = status

\* Lines 55-56: os.makedirs(output_dir, exist_ok=True).
Makedirs ==
  /\ pc = "makedirs"
  /\ \E fail \in FailLevels(fs_mode) :
       LET r == makedirs(OutputDirDepth, dirs, fs_mode, fail)
       IN  /\ dirs' = r.dirs
           /\ trace' = Append(trace, "makedirs")
           /\ IF r.err = "ok"
              THEN /\ pc' = "generate"
                   /\ UNCHANGED <<raised, exit_status>>
              ELSE /\ raised' = "makedirs"
                   /\ Exit(1)
  /\ UNCHANGED <<fs_mode, file, f, svg_content, stdout, run, file_before,
                 dirs_before, returned,
                 previous>>

\* Lines 59-60: svg_content = generate_icon_svg().
Generate ==
  /\ pc = "generate"
  /\ svg_content' = generate_icon_svg
  /\ returned' = Append(returned, [text |-> svg_content',
                                   file_exists |-> file.exists])
  /\ trace' = Append(trace, "generate")
  /\ pc' = "open"
  /\ UNCHANGED <<fs_mode, dirs, file, f, raised, stdout, exit_status, run,
                 file_before, dirs_before, previous>>

\* The open wrapped in try/except OSError: pass -- a failure is dropped and
\* main() goes on to its messages.
OpenCaught ==
  /\ pc = "open"
  /\ trace' = Append(trace, "open")
  /\ \E ok \in OpenOutcomes(fs_mode, dirs) :
       IF ok
       THEN LET o == open_w(file)
            IN  /\ file' = Regular(o.data)
                /\ f' = [open |-> TRUE, pos |-> o.pos]
                /\ pc' = "write"
       ELSE /\ pc' = "print_confirm"
            /\ UNCHANGED <<file, f>>
  /\ UNCHANGED <<fs_mode, dirs, svg_content, stdout, run, file_before,
                 dirs_before, returned, raised, exit_status,
                 previous>>

\* The open tried a second time after a first failure.
OpenWithRetry ==
  /\ pc = "open"
  /\ trace' = Append(trace, "open")
  /\ \E ok \in OpenOutcomes(fs_mode, dirs) :
       IF ok
       THEN LET o == open_w(file)
            IN  /\ file' = Regular(o.data)
                /\ f' = [open |-> TRUE, pos |-> o.pos]
                /\ pc' = "write"
                /\ UNCHANGED <<raised, exit_status>>
       ELSE /\ raised' = "open"
            /\ IF "open" \in Range(trace)
               THEN Exit(1)
               ELSE UNCHANGED <<pc, exit_status>>
            /\ UNCHANGED <<file, f>>
  /\ UNCHANGED <<fs_mode, dirs, svg_content, stdout, run, file_before,
                 dirs_before, returned,
                 previous>>

\* Line 62: with open(svg_path, 'w') as f.
Open ==
  /\ pc = "open"
  /\ trace' = Append(trace, "open")
  /\ \E ok \in OpenOutcomes(fs_mode, dirs) :
       IF ok
       THEN LET o == open_w(file)
            IN  /\ file' = Regular(o.data)
                /\ f' = [open |-> TRUE, pos |-> o.pos]
                /\ pc' = "write"
                /\ UNCHANGED <<raised, exit_status>>
       ELSE /\ raised' = "open"
            /\ Exit(1)
            /\ UNCHANGED <<file, f>>
  /\ UNCHANGED <<fs_mode, dirs, svg_content, stdout, run, file_before,
                 dirs_before, returned,
                 previous>>

\* Line 63: f.write(svg_content) is called.
Write ==
  /\ pc = "write"
  /\ trace' = Append(trace, "write")
  /\ pc' = "writing"
  /\ UNCHANGED <<fs_mode, dirs, file, f, svg_content, raised, stdout,
                 exit_status, run, file_before, dirs_before, returned,
                 previous>>

\* A write that takes one system call for the whole: a short write is not
\* continued.
WriteChunkShort(k) ==
  /\ pc = "writing"
  /\ f.pos < Len(svg_content)
  /\ LET upto == Min(f.pos + k, Len(svg_content))
         chunk == SubSeq(svg_content, f.pos + 1, upto)
     IN  /\ file' = Regular(pwrite(file.data, f.pos, chunk))
         /\ f' = [f EXCEPT !.pos = upto]
         /\ pc' = "with_exit"
  /\ UNCHANGED <<fs_mode, dirs, svg_content, raised, stdout, exit_status,
                 run, trace, file_before, dirs_before, returned, previous>>

\* Line 63: the text reaches the file, at most k items per system call; the
\* with body is left once all of it is there.
WriteChunk(k) ==
  /\ pc = "writing"
  /\ f.pos < Len(svg_content)
  /\ LET upto == Min(f.pos + k, Len(svg_content))
         chunk == SubSeq(svg_content, f.pos + 1, upto)
     IN  /\ file' = Regular(pwrite(file.data, f.pos, chunk))
         /\ f' = [f EXCEPT !.pos = upto]
         /\ pc' = IF upto = Len(svg_content) THEN "with_exit" ELSE "writing"
  /\ UNCHANGED <<fs_mode, dirs, svg_content, raised, stdout, exit_status,
                 run, trace, file_before, dirs_before, returned, previous>>

\* Line 63: a system call fails (disk full, I/O error) and the write raises.
WriteFail ==
  /\ pc = "writing"
  /\ fs_mode = "failing"
  /\ raised' = "write"
  /\ pc' = "with_exit"
  /\ UNCHANGED <<fs_mode, dirs, file, f, svg_content, stdout, exit_status,
                 run, trace, file_before, dirs_before, returned, previous>>

\* f = open(...); f.write(...); f.close() without with: an exception of
\* the write skips the close.
WithExitLeak ==
  /\ pc = "with_exit"
  /\ trace' = Append(trace, "close")
  /\ IF raised = "none"
     THEN /\ f' = [open |-> FALSE, pos |-> 0]
          /\ pc' = "print_confirm"
          /\ UNCHANGED <<exit_status>>
     ELSE /\ f' = f
          /\ Exit(1)
  /\ UNCHANGED <<fs_mode, dirs, file, svg_content, raised, stdout, run,
                 file_before, dirs_before, returned,
                 previous>>

\* A with statement followed by cleanup: a failed write removes the file.
WithExitCleanup ==
  /\ pc = "with_exit"
  /\ f' = [open |-> FALSE, pos |-> 0]
  /\ trace' = Append(trace, "close")
  /\ IF raised = "none"
     THEN /\ pc' = "print_confirm"
          /\ file' = file
          /\ UNCHANGED <<exit_status>>
     ELSE /\ file' = Absent
          /\ Exit(1)
  /\ UNCHANGED <<fs_mode, dirs, svg_content, raised, stdout, run,
                 file_before, dirs_before, returned,
                 previous>>

\* Line 62: the with statement's exit closes f, then control goes on or the
\* exception of the body propagates.
WithExit ==
  /\ pc = "with_exit"
  /\ f' = [open |-> FALSE, pos |-> 0]
  /\ trace' = Append(trace, "close")
  /\ IF raised = "none"
     THEN /\ pc' = "print_confirm"
          /\ UNCHANGED <<exit_status>>
     ELSE Exit(1)
  /\ UNCHANGED <<fs_mode, dirs, file, svg_content, raised, stdout, run,
                 file_before, dirs_before, returned,
                 previous>>

\* Line 65: the confirmation line.
PrintConfirmation ==
  /\ pc = "print_confirm"
  /\ stdout' = Append(stdout, "Generated SVG icon at: svg_path")
  /\ trace' = Append(trace, "print_confirm")
  /\ pc' = "print_next"
  /\ UNCHANGED <<fs_mode, dirs, file, f, svg_content, raised, exit_status,
                 run, file_before, dirs_before, returned, previous>>

\* Lines 66-72: the next-step instructions; then main() returns.
PrintNextSteps ==
  /\ pc = "print_next"
  /\ stdout' = stdout \o << "Next steps:", "1. Convert SVG to PNG",
                            "- Online", "- Or install ImageMagick",
                            "- Then run: convert", "2. Generate Tauri icons:",
                            "npm run tauri icon" >>
  /\ trace' = Append(trace, "print_next")
  /\ Exit(0)
  /\ UNCHANGED <<fs_mode, dirs, file, f, svg_content, raised, run,
                 file_before, dirs_before, returned,
                 previous>>

\* Lines 74-75: the script is run again against the same location.
Invoke ==
  /\ pc = "exited"
  /\ run < MaxRuns
  /\ run' = run + 1
  /\ pc' = "makedirs"
  /\ svg_content' = <<>>
  /\ raised' = "none"
  /\ stdout' = <<>>
  /\ exit_status' = -1
  /\ trace' = <<>>
  /\ file_before' = file
  /\ dirs_before' = dirs
  /\ previous' = [status |-> exit_status, file |-> file]
  /\ UNCHANGED <<fs_mode, dirs, file, f, returned>>

Step ==
  \/ Makedirs
  \/ Generate
  \/ Open
  \/ Write
  \/ \E k \in 1..MaxChunk : WriteChunk(k)
  \/ WriteFail
  \/ WithExit
  \/ PrintConfirmation
  \/ PrintNextSteps

Next == Step \/ Invoke

Spec == Init /\ [][Next]_vars

\* A started run goes on until the process ends: the program is sequential
\* and has no wait.
FairSpec == Spec /\ WF_vars(Step)

\* ------------------------------------------------------------- properties

Exited == pc = "exited"
Full == 0..OutputDirDepth
Shapes(doc) == SelectSeq(doc, LAMBDA t : t.tag \in {"circle", "path", "line"})
Tagged(doc, tag) == SelectSeq(doc, LAMBDA t : t.tag = tag)
ProperPrefix(s, t) == IsPrefix(s, t) /\ Len(s) < Len(t)

\* C1: runs made one after the other against the same location all succeed on
\* a writable filesystem, and whenever two successive runs succeed, icon.svg
\* after the later one equals icon.svg after the earlier one.
C1_OverwriteIdempotent ==
  /\ (Exited /\ fs_mode = "writable") =>
        (exit_status = 0 /\ previous.status \in {-1, 0})
  /\ (Exited /\ run > 1 /\ previous.status = 0 /\ exit_status = 0) =>
        file = previous.file
  /\ previous.status = -1 <=> run = 1

\* Two runs have succeeded, the second over the output of the first.
C1_Witness ==
  /\ Exited /\ run = 2 /\ fs_mode = "writable"
  /\ previous.status = 0 /\ exit_status = 0
  /\ file_before = previous.file /\ file = previous.file
  /\ file = Regular(svg_content)

\* C2: on a read-only filesystem, whether or not the directory and icon.svg
\* exist, icon.svg is at every moment absent or exactly what it was before the
\* run, a run that has ended has a non-zero status, and every run ends.
C2_ReadOnlyFailsCleanly ==
  /\ [](fs_mode = "read_only" =>
          /\ file = Absent \/ file = file_before
          /\ Exited => exit_status # 0)
  /\ (fs_mode = "read_only" /\ ~Exited) ~> (Exited /\ exit_status # 0)

\* A read-only run that found the directory and a file, and failed in open.
C2_Witness ==
  /\ fs_mode = "read_only" /\ Exited /\ exit_status = 1
  /\ raised = "open" /\ OutputDirDepth \in dirs_before
  /\ file_before = Regular(Junk(2)) /\ file = file_before

\* C3: the handle is open only between the open and the end of the with
\* statement: not while the directory is made, the text generated or the
\* messages printed, and not once the process has ended; it is acquired by
\* the step right before the write and released by the with statement's exit
\* whether or not the write raised.
C3_HandleScoped ==
  /\ [](f.open => pc \in {"write", "writing", "with_exit"})
  /\ [][ /\ (~f.open /\ f'.open) => (pc = "open" /\ pc' = "write")
         /\ (pc = "with_exit" /\ pc' # "with_exit") => ~f'.open
         /\ (f.open /\ ~f'.open) => pc = "with_exit" ]_vars

\* A run whose write raised has ended, with the handle released.
C3_Witness ==
  /\ Exited /\ raised = "write" /\ ~f.open
  /\ trace = <<"makedirs", "generate", "open", "write", "close">>

\* C4: on a writable filesystem main creates every missing directory and
\* the run succeeds; when the directory exists already, the makedirs step
\* raises nothing and changes nothing, whatever the filesystem's mode.
C4_DirectoryEnsured ==
  /\ (fs_mode = "writable" /\ "makedirs" \in Range(trace)) =>
        /\ dirs = Full
        /\ raised = "none"
        /\ Exited => exit_status = 0
  /\ (OutputDirDepth \in dirs_before /\ "makedirs" \in Range(trace)) =>
        /\ dirs = dirs_before
        /\ raised # "makedirs"

\* A successful run that had to create both directories.
C4_Witness ==
  /\ Exited /\ exit_status = 0 /\ fs_mode = "writable"
  /\ dirs_before = {0} /\ dirs = Full /\ run = 1

\* C5: no failure is caught or retried.  After a failure of makedirs nothing
\* was opened, written or printed; after a failure of open or write nothing
\* was printed; a run in which a step failed ends with a non-zero status; no
\* step is begun twice in a run; status 0 means every step was done and none
\* failed.
C5_FailuresPropagate ==
  /\ raised = "makedirs" =>
        /\ Range(trace) = {"makedirs"}
        /\ file = file_before /\ ~f.open /\ stdout = <<>>
        /\ Exited /\ exit_status # 0
  /\ raised = "open" =>
        /\ file = file_before /\ ~f.open /\ stdout = <<>>
        /\ "write" \notin Range(trace)
        /\ Exited /\ exit_status # 0
  /\ raised = "write" =>
        /\ stdout = <<>>
        /\ pc \in {"with_exit", "exited"}
        /\ Exited => exit_status # 0
  /\ \A i, j \in 1..Len(trace) : trace[i] = trace[j] => i = j
  /\ (Exited /\ exit_status = 0) =>
        /\ raised = "none"
        /\ trace = <<"makedirs", "generate", "open", "write", "close",
                     "print_confirm", "print_next">>
        /\ dirs = Full /\ file = Regular(svg_content) /\ Len(stdout) = 8
  /\ (Exited /\ raised = "none") => exit_status = 0

\* makedirs failed on the second directory after creating the first.
C5_Witness ==
  /\ Exited /\ raised = "makedirs" /\ exit_status = 1
  /\ dirs_before = {0} /\ dirs = {0, 1}

\* C6: after a successful run, whatever icon.svg was before (absent, empty,
\* shorter or longer), it exists, is not empty and holds exactly the text
\* the run's call of generate_icon_svg returned, with no earlier item left.
C6_FileIsDocument ==
  (Exited /\ exit_status = 0) =>
    /\ file.exists
    /\ Len(file.data) > 0
    /\ file.data = returned[Len(returned)].text
    /\ \A i \in 1..Len(file.data) : file.data[i].tag # "junk"

\* A successful run over a file that was longer than the document.
C6_Witness ==
  /\ Exited /\ exit_status = 0
  /\ Len(file_before.data) > Len(file.data)
  /\ file.data = svg_content

\* C7: every call of generate_icon_svg returns the same text: the calls of
\* successive runs agree with each other, and with the one constant
\* document, whatever the filesystem held when they were made.
C7_Deterministic ==
  /\ \A i, j \in 1..Len(returned) : returned[i].text = returned[j].text
  /\ \A i \in 1..Len(returned) : returned[i].text = SvgDocument

\* Two calls: one with icon.svg absent, one with icon.svg present.
C7_Witness ==
  /\ Len(returned) = 2 /\ run = 2 /\ pc = "open"
  /\ ~returned[1].file_exists /\ returned[2].file_exists

\* C8: the returned document has exactly two linear gradients, bgGrad and
\* iconGrad, and thirteen shapes: five circles, two paths and six lines; the
\* first shape is the background circle and references bgGrad, the other
\* twelve reference iconGrad.
C8_DocumentShapes ==
  \A n \in 1..Len(returned) :
    LET doc == returned[n].text
        grads == Tagged(doc, "linearGradient")
        shapes == Shapes(doc)
    IN  /\ Len(grads) = 2
        /\ {grads[i].id : i \in 1..Len(grads)} = {"bgGrad", "iconGrad"}
        /\ Len(Tagged(doc, "circle")) = 5
        /\ Len(Tagged(doc, "path")) = 2
        /\ Len(Tagged(doc, "line")) = 6
        /\ Len(shapes) = 13
        /\ shapes[1].tag = "circle" /\ shapes[1].ref = "bgGrad"
        /\ \A i \in 2..Len(shapes) : shapes[i].ref = "iconGrad"
        /\ \A i \in 1..Len(shapes) : shapes[i].ref \in {grads[g].id : g \in 1..Len(grads)}

\* The document has been returned to main.
C8_Witness ==
  /\ pc = "open" /\ returned # <<>> /\ svg_content = returned[Len(returned)].text
  /\ Len(svg_content) > 13

\* C9 as stated: the steps of a run are, in order, generate, makedirs, open and
\* write, print; so the text has been generated when the directory is made.
C9_GenerateFirst ==
  IsPrefix(trace, <<"generate", "makedirs", "open", "write", "close",
                    "print_confirm", "print_next">>)

\* C9 amended: the steps of a run are, in order, makedirs, generate, open and
\* write, print, each begun only after the one before it was completed: the
\* text is generated once the directory exists, the file is opened once the
\* text is there, and the confirmation is printed only when the file holds
\* the whole text and has been closed.
C9_StepOrder ==
  /\ IsPrefix(trace, <<"makedirs", "generate", "open", "write", "close",
                       "print_confirm", "print_next">>)
  /\ "generate" \in Range(trace) => (dirs = Full /\ svg_content # <<>>)
  /\ "generate" \notin Range(trace) => svg_content = <<>>
  /\ "write" \in Range(trace) => file.exists
  /\ stdout # <<>> =>
        /\ "print_confirm" \in Range(trace)
        /\ file = Regular(svg_content) /\ ~f.open /\ raised = "none"

\* The confirmation has been printed in a run that created the directories.
C9_Witness ==
  /\ pc = "print_next" /\ Len(stdout) = 1 /\ dirs_before = {0}
  /\ file = Regular(svg_content)

\* C10: icon.svg is always absent, or what it was before the run, or a prefix
\* of the document; and nothing is cleaned up: after a run whose open
\* succeeded and whose write raised, icon.svg exists and holds the proper
\* prefix of the document that had been written, not what it held before.
C10_PrefixOrBefore ==
  /\ \/ file = Absent
     \/ file = file_before
     \/ file.exists /\ IsPrefix(file.data, SvgDocument)
  /\ raised = "write" =>
        /\ file.exists
        /\ ProperPrefix(file.data, svg_content)
        /\ Len(file.data) = f.pos \/ ~f.open
        /\ Len(file_before.data) > Len(svg_content) => file # file_before

\* A failed run has left three items where a longer file had been.
C10_Witness ==
  /\ Exited /\ raised = "write" /\ exit_status = 1
  /\ file_before = Regular(SvgDocument \o Junk(MaxOldLen))
  /\ Len(file.data) = 3

====
